---- MODULE Spec2Model ----
(***************************************************************************)
(* Model of src/src/day07.rs: the dependency graph of tasks ('A'..'Z'),    *)
(* the sequential scheduler Graph::execution_order and the worker-pool     *)
(* simulation Graph::execution_time.                                       *)
(*                                                                         *)
(* A task identifier is a Rust char, modelled by its code point (65..90). *)
(* A String / Vec<char> is a sequence of code points.  The BinaryHeap      *)
(* exec_queue is a bag (a heap may hold an element twice); its pop returns *)
(* the greatest element under nchar's Ord.  HashMap and HashSet are a      *)
(* function and a set.                                                     *)
(***************************************************************************)
EXTENDS Bags, FiniteSets, Integers, Naturals, Sequences, TLC

\* ------------------------------------------------------------------ bounds
\* identifiers enumerated for the generic inputs: 'A' .. 'A' + MaxId
MaxId == 2
\* number of distinct edges (input lines) of a generic input
MaxEdges == 3
\* num_workers ranges over 0 .. MaxWorkers
MaxWorkers == 3
\* base_cost ranges over 0 .. MaxBaseCost
MaxBaseCost == 1
\* number of distinct edges of a generic input of the fair specification
MaxLiveEdges == 1

\* 'A' as u32 (day07.rs:24)
Ord_A == 65
\* 'Z' as u32, the last identifier the pattern of Graph::new lets through
\* (day07.rs:38)
Ord_Z == 90
\* a u32 (day07.rs:23) is kept as two limbs of 16 bits: Limb is 2^16
Limb == 65536
\* the base costs given to Node::cost alone lie within MaxCostOffset of 0,
\* of 2^16 - 1, of u32::MAX - 25 and of u32::MAX
MaxCostOffset == 2

\* lines in an input given to Graph::new alone
MaxLines == 3

Ids == Ord_A .. (Ord_A + MaxId)

\* ------------------------------------------------------------------ inputs
\* An input is the sequence of (source, destination) pairs that the regex of
\* Graph::new captures from the lines of s.

\* TEST_INPUT (day07.rs:231-237): C->A, C->F, A->B, A->D, B->E, D->E, F->E
TEST_INPUT ==
    << <<67, 65>>, <<67, 70>>, <<65, 66>>, <<65, 68>>,
       <<66, 69>>, <<68, 69>>, <<70, 69>> >>

\* F->B, C->A, B->R, G->E, G->D, G->H : an acyclic input on which three
\* workers need more ticks than two
ANOMALY_INPUT ==
    << <<70, 66>>, <<67, 65>>, <<66, 82>>, <<71, 69>>, <<71, 68>>, <<71, 72>> >>

\* A->D, C->D, D->E, E->D, E->F : two roots, the cycle D <-> E and a task
\* below the cycle
CYCLIC_INPUT ==
    << <<65, 68>>, <<67, 68>>, <<68, 69>>, <<69, 68>>, <<69, 70>> >>

RECURSIVE KSubsets(_, _)
KSubsets(S, k) ==
    IF k = 0 THEN {{}}
    ELSE LET P == KSubsets(S, k - 1)
         IN  P \cup {p \cup {e} : p \in P, e \in S}

PairLess(a, b) == a[1] < b[1] \/ (a[1] = b[1] /\ a[2] < b[2])

RECURSIVE SortedLines(_)
SortedLines(E) ==
    IF E = {} THEN <<>>
    ELSE LET m == CHOOSE x \in E : \A y \in E : x = y \/ PairLess(x, y)
         IN  <<m>> \o SortedLines(E \ {m})

\* every edge set of at most MaxEdges edges over Ids (self loops and cycles
\* included), one line per edge, plus the named inputs
Inputs ==
    {SortedLines(E) : E \in KSubsets(Ids \X Ids, MaxEdges)}
        \cup {TEST_INPUT, ANOMALY_INPUT, CYCLIC_INPUT}

\* the inputs of the fair specification
LiveInputs ==
    {SortedLines(E) : E \in KSubsets(Ids \X Ids, MaxLiveEdges)}
        \cup {TEST_INPUT, ANOMALY_INPUT, CYCLIC_INPUT}

\* -------------------------------------------------------- iteration order
\* the sequences that enumerate the set S, each element once: the orders in
\* which the iterator of a HashMap or of a HashSet may yield S
RECURSIVE Perms(_)
Perms(S) ==
    IF S = {} THEN {<<>>}
    ELSE UNION {{<<x>> \o p : p \in Perms(S \ {x})} : x \in S}

\* the iteration that yields S in ascending order
RECURSIVE Ascending(_)
Ascending(S) ==
    IF S = {} THEN <<>>
    ELSE LET m == CHOOSE x \in S : \A y \in S : x <= y
         IN  <<m>> \o Ascending(S \ {m})

\* the iteration orders of S: the iterator of a HashMap or of a HashSet may
\* yield the elements in any order
iter_orders(S) == Perms(S)

\* -------------------------------------------------------------------- u32
\* the u32 of value n: [hi, lo] stands for hi * 2^16 + lo
u32(n) == [hi |-> n \div Limb, lo |-> n % Limb]

\* the value of a u32 below 2^31
u32_value(x) == x.hi * Limb + x.lo

u32_MAX == [hi |-> Limb - 1, lo |-> Limb - 1]

\* a - b on u32: the wrapped difference, and whether the subtraction
\* overflowed
u32_sub(a, b) ==
    LET lo == a.lo - b.lo
        hi == a.hi - b.hi - (IF lo < 0 THEN 1 ELSE 0)
    IN  [value |-> [hi |-> hi % Limb, lo |-> lo % Limb], overflow |-> hi < 0]

\* a + b on u32: the wrapped sum, and whether the addition overflowed
u32_add(a, b) ==
    LET lo == a.lo + b.lo
        hi == a.hi + b.hi + (lo \div Limb)
    IN  [value |-> [hi |-> hi % Limb, lo |-> lo % Limb],
         overflow |-> hi >= Limb]

\* ------------------------------------------------------------------- Node
Node_new(id) == [id |-> id, unlocks |-> {}, dependencies |-> {}]

\* cost with 'a' in place of 'A'
Node_cost_u32_from_lowercase(node, base_cost) ==
    LET d == u32_sub(u32(node.id), u32(Ord_A + 32))
        c == u32_add(d.value, base_cost)
    IN  [value |-> c.value, overflow |-> d.overflow \/ c.overflow]

\* (self.id as u32) - ('A' as u32) + base_cost on u32: the wrapped value,
\* and whether an operation overflowed
Node_cost_u32(node, base_cost) ==
    LET d == u32_sub(u32(node.id), u32(Ord_A))
        c == u32_add(d.value, base_cost)
    IN  [value |-> c.value, overflow |-> d.overflow \/ c.overflow]

\* what a call of Node::cost may do: return the value, or on an overflow
\* panic (overflow checks on) or return the wrapped value (checks off)
Node_cost_outcomes(node, base_cost) ==
    LET c == Node_cost_u32(node, base_cost)
    IN  IF c.overflow
        THEN {[panic |-> TRUE, value |-> u32(0)],
              [panic |-> FALSE, value |-> c.value]}
        ELSE {[panic |-> FALSE, value |-> c.value]}

\* cost with 'A' costing 1
Node_cost_one_based(node, base_cost) == node.id - Ord_A + 1 + base_cost

\* Node::cost as a number, for the identifiers and the base costs of the
\* scheduler runs, which no u32 operation overflows on
Node_cost(node, base_cost) == node.id - Ord_A + base_cost

\* ------------------------------------------------------------------ nchar
\* the comparison of the chars, not reversed
nchar_cmp_natural(self, other) ==
    IF self = other THEN "Equal"
    ELSE IF self < other THEN "Less"
    ELSE "Greater"

\* Ord for nchar: the comparison of the chars, reversed
nchar_cmp(self, other) ==
    IF self = other THEN "Equal"
    ELSE IF self < other THEN "Greater"
    ELSE "Less"

\* BinaryHeap::peek: a greatest element under nchar_cmp
heap_max(q) ==
    CHOOSE x \in BagToSet(q) :
        \A y \in BagToSet(q) : nchar_cmp(x, y) # "Less"

\* Iterator::next for Graph: exec_queue.pop() as [some, value, exec_queue]
next(exec_queue) ==
    IF BagToSet(exec_queue) = {}
    THEN [some |-> FALSE, value |-> 0, exec_queue |-> exec_queue]
    ELSE LET nc == heap_max(exec_queue)
         IN  [some |-> TRUE, value |-> nc,
              exec_queue |-> exec_queue (-) SetToBag({nc})]

\* ------------------------------------------------------------- Graph::new
\* an insert that replaces the node already registered under id
entry_or_insert_overwriting(nodes, id) ==
    [x \in DOMAIN nodes \cup {id} |->
        IF x = id THEN Node_new(id) ELSE nodes[x]]

\* nodes.entry(id).or_insert_with(|| Node::new(id))
entry_or_insert(nodes, id) ==
    IF id \in DOMAIN nodes THEN nodes ELSE nodes @@ (id :> Node_new(id))

\* the loop over the lines without the dependencies.insert
RECURSIVE insert_lines_no_deps(_, _)
insert_lines_no_deps(nodes, lines) ==
    IF lines = <<>> THEN nodes
    ELSE LET source      == Head(lines)[1]
             destination == Head(lines)[2]
             n1 == entry_or_insert(nodes, source)
             n2 == [n1 EXCEPT ![source].unlocks = @ \cup {destination}]
             n3 == entry_or_insert(n2, destination)
         IN  insert_lines_no_deps(n3, Tail(lines))

\* the loop over the lines of s
RECURSIVE insert_lines(_, _)
insert_lines(nodes, lines) ==
    IF lines = <<>> THEN nodes
    ELSE LET source      == Head(lines)[1]
             destination == Head(lines)[2]
             n1 == entry_or_insert(nodes, source)
             n2 == [n1 EXCEPT ![source].unlocks = @ \cup {destination}]
             n3 == entry_or_insert(n2, destination)
             n4 == [n3 EXCEPT ![destination].dependencies = @ \cup {source}]
         IN  insert_lines(n4, Tail(lines))

\* a root push without the filter
is_root_always(node) == TRUE

\* the filter of the root push
is_root(node) == node.dependencies = {}

\* the identifiers that pass the filter of the root push
roots(nodes) == {id \in DOMAIN nodes : is_root(nodes[id])}

\* a root push that stops at the first node passing the filter
RECURSIVE push_roots_first_only(_, _, _)
push_roots_first_only(nodes, exec_queue, order) ==
    IF order = <<>> THEN exec_queue
    ELSE IF is_root(nodes[Head(order)])
    THEN exec_queue (+) SetToBag({Head(order)})
    ELSE push_roots_first_only(nodes, exec_queue, Tail(order))

\* nodes.values().filter(..).for_each(|node| exec_queue.push(nchar(node.id)))
\* where values() yields the nodes in the order given
RECURSIVE push_roots(_, _, _)
push_roots(nodes, exec_queue, order) ==
    IF order = <<>> THEN exec_queue
    ELSE push_roots(nodes,
                    IF is_root(nodes[Head(order)])
                    THEN exec_queue (+) SetToBag({Head(order)})
                    ELSE exec_queue,
                    Tail(order))

\* the orders in which the root push may meet the nodes it pushes
root_orders(lines) == iter_orders(roots(insert_lines(<<>>, lines)))

\* a Graph::new that registers the sources of the lines only
Graph_new_in_sources_only(lines, order) ==
    LET ns == insert_lines(<<>>, lines)
        kept == [id \in {v \in DOMAIN ns : ns[v].unlocks # {}} |-> ns[id]]
    IN  [nodes      |-> kept,
         completed  |-> {},
         exec_queue |-> push_roots(kept, EmptyBag, order)]

\* Graph::new when the root push meets the roots in the order given
Graph_new_in(lines, order) ==
    LET ns == insert_lines(<<>>, lines)
    IN  [nodes      |-> ns,
         completed  |-> {},
         exec_queue |-> push_roots(ns, EmptyBag, order)]

Graph_new(lines) ==
    Graph_new_in(lines, Ascending(roots(insert_lines(<<>>, lines))))

\* ---------------------------------------------------------- complete_node
\* readiness with any in place of all
is_ready_any(nodes, completed, unlock) ==
    \E d \in nodes[unlock].dependencies : d \in completed

\* is_ready: all the dependencies of the unlocked node are completed
is_ready(nodes, completed, unlock) ==
    \A d \in nodes[unlock].dependencies : d \in completed

\* the loop of complete_node over the unlocks still to visit
RECURSIVE push_ready(_, _, _, _)
push_ready(nodes, completed, exec_queue, unlocks) ==
    IF unlocks = <<>> THEN exec_queue
    ELSE push_ready(nodes, completed,
                    IF is_ready(nodes, completed, Head(unlocks))
                    THEN exec_queue (+) SetToBag({Head(unlocks)})
                    ELSE exec_queue,
                    Tail(unlocks))

\* the orders in which the unlocks of the nodes of D may be visited: one
\* order per node
RECURSIVE IterOrders(_, _)
IterOrders(nodes, D) ==
    IF D = {} THEN {<<>>}
    ELSE LET id == CHOOSE x \in D : TRUE
         IN  {(id :> p) @@ f : p \in iter_orders(nodes[id].unlocks),
                               f \in IterOrders(nodes, D \ {id})}

\* the ascending order for every node
AscendingIter(nodes) ==
    [id \in DOMAIN nodes |-> Ascending(nodes[id].unlocks)]

\* a complete_node that also strikes node_id off the dependencies of the
\* nodes it unlocks
complete_node_consuming(nodes, completed, exec_queue, node_id, iter) ==
    LET c2 == completed \cup {node_id}
    IN  [nodes |-> [id \in DOMAIN nodes |->
                       IF id \in nodes[node_id].unlocks
                       THEN [nodes[id] EXCEPT !.dependencies = @ \ {node_id}]
                       ELSE nodes[id]],
         completed |-> c2,
         exec_queue |-> push_ready(nodes, c2, exec_queue, iter[node_id])]

\* the Graph after complete_node(node_id), the unlocks of node_id being
\* visited in the order iter[node_id]
complete_node(nodes, completed, exec_queue, node_id, iter) ==
    LET c2 == completed \cup {node_id}
    IN  [nodes |-> nodes,
         completed |-> c2,
         exec_queue |-> push_ready(nodes, c2, exec_queue, iter[node_id])]

\* ------------------------------------------------------------ WorkerStatus
Idle == [status |-> "Idle"]

Working(node, completion_time) ==
    [status |-> "Working", node |-> node, completion_time |-> completion_time]

\* a vector one worker short
new_workers_one_less(num_workers) == [i \in 0 .. (num_workers - 2) |-> Idle]

\* vec![WorkerStatus::Idle; num_workers], indexed 0 .. num_workers - 1
new_workers(num_workers) == [i \in 0 .. (num_workers - 1) |-> Idle]

workers_len(workers) == Cardinality(DOMAIN workers)

\* -------------------------------------------------------- execution_order
\* one iteration of the while-let loop: pop, complete_node, result.push
order_step(nodes, completed, exec_queue, result, iter) ==
    LET n == next(exec_queue)
        c == complete_node(nodes, completed, n.exec_queue, n.value, iter)
    IN  [nodes |-> c.nodes, completed |-> c.completed,
         exec_queue |-> c.exec_queue, result |-> Append(result, n.value)]

RECURSIVE order_loop(_, _, _, _, _)
order_loop(nodes, completed, exec_queue, result, iter) ==
    IF ~next(exec_queue).some
    THEN [nodes |-> nodes, completed |-> completed,
          exec_queue |-> exec_queue, result |-> result]
    ELSE LET s == order_step(nodes, completed, exec_queue, result, iter)
         IN  order_loop(s.nodes, s.completed, s.exec_queue, s.result, iter)

\* the String returned by execution_order on the graph g
execution_order(g) ==
    order_loop(g.nodes, g.completed, g.exec_queue, <<>>,
               AscendingIter(g.nodes)).result

\* --------------------------------------------------------- execution_time
\* body of the assignment loop for worker i, without the Idle test
assign_worker_no_idle_check(nodes, st, i, time, base_cost) ==
    LET n == next(st.exec_queue)
    IN  IF n.some
        THEN [workers |-> [st.workers EXCEPT ![i] =
                  Working(n.value, time + Node_cost(nodes[n.value], base_cost))],
              exec_queue |-> n.exec_queue,
              log |-> Append(st.log,
                  [node |-> n.value, worker |-> i, time |-> time])]
        ELSE st

\* body of the assignment loop for worker i; st = [workers, exec_queue, log],
\* log being the assignments made so far in the run
assign_worker(nodes, st, i, time, base_cost) ==
    IF st.workers[i] = Idle
    THEN LET n == next(st.exec_queue)
         IN  IF n.some
             THEN [workers |-> [st.workers EXCEPT ![i] =
                       Working(n.value,
                               time + Node_cost(nodes[n.value], base_cost))],
                   exec_queue |-> n.exec_queue,
                   log |-> Append(st.log,
                       [node |-> n.value, worker |-> i, time |-> time])]
             ELSE st
    ELSE st

RECURSIVE assign_loop(_, _, _, _, _)
assign_loop(nodes, st, i, time, base_cost) ==
    IF i >= workers_len(st.workers) THEN st
    ELSE assign_loop(nodes, assign_worker(nodes, st, i, time, base_cost),
                     i + 1, time, base_cost)

\* an assignment phase that looks at the first worker only
assign_phase_first_worker(nodes, exec_queue, workers, log, time, base_cost) ==
    LET st == [workers |-> workers, exec_queue |-> exec_queue, log |-> log]
    IN  IF workers_len(workers) = 0 THEN st
        ELSE assign_worker(nodes, st, 0, time, base_cost)

\* the assignment phase: for i in 0..workers.len()
assign_phase(nodes, exec_queue, workers, log, time, base_cost) ==
    assign_loop(nodes,
                [workers |-> workers, exec_queue |-> exec_queue, log |-> log],
                0, time, base_cost)

\* a termination test that wants a worker to be there
all_idle_needs_worker(workers) ==
    /\ workers_len(workers) > 0
    /\ Cardinality({i \in DOMAIN workers : workers[i] = Idle})
           = workers_len(workers)

\* a termination test that looks at the first worker only
all_idle_first(workers) ==
    workers_len(workers) = 0 \/ workers[0] = Idle

\* the termination test: free_workers == workers.len()
all_idle(workers) ==
    Cardinality({i \in DOMAIN workers : workers[i] = Idle})
        = workers_len(workers)

\* the guard of the completion phase, with a strict comparison
has_completed_strict(time, completion_time) == time > completion_time

\* the guard of the completion phase
has_completed(time, completion_time) == time >= completion_time

\* a completion loop body that frees the worker without complete_node
complete_worker_unmarked(st, i, time, iter) ==
    LET w == st.workers[i]
    IN  IF w = Idle THEN st
        ELSE IF has_completed(time, w.completion_time)
        THEN [st EXCEPT !.workers[i] = Idle,
                        !.log = Append(st.log,
                            [node |-> w.node, worker |-> i, time |-> time])]
        ELSE st

\* body of the completion loop for worker i;
\* st = [nodes, workers, completed, exec_queue, log], log being the
\* completions of the run so far
complete_worker(st, i, time, iter) ==
    LET w == st.workers[i]
    IN  IF w = Idle THEN st
        ELSE IF has_completed(time, w.completion_time)
        THEN LET c == complete_node(st.nodes, st.completed, st.exec_queue,
                                    w.node, iter)
             IN  [nodes |-> c.nodes,
                  workers |-> [st.workers EXCEPT ![i] = Idle],
                  completed |-> c.completed,
                  exec_queue |-> c.exec_queue,
                  log |-> Append(st.log,
                      [node |-> w.node, worker |-> i, time |-> time])]
        ELSE st

RECURSIVE complete_loop(_, _, _, _)
complete_loop(st, i, time, iter) ==
    IF i >= workers_len(st.workers) THEN st
    ELSE complete_loop(complete_worker(st, i, time, iter), i + 1, time, iter)

\* the completion phase: for i in 0..workers.len()
complete_phase(nodes, completed, exec_queue, workers, log, time, iter) ==
    complete_loop([nodes |-> nodes, workers |-> workers,
                   completed |-> completed, exec_queue |-> exec_queue,
                   log |-> log],
                  0, time, iter)

RECURSIVE time_loop(_, _, _, _, _, _, _)
time_loop(nodes, completed, exec_queue, workers, time, base_cost, iter) ==
    LET a == assign_phase(nodes, exec_queue, workers, <<>>, time, base_cost)
    IN  IF all_idle(a.workers) THEN time
        ELSE LET c == complete_phase(nodes, completed, a.exec_queue,
                                     a.workers, <<>>, time, iter)
             IN  time_loop(c.nodes, c.completed, c.exec_queue, c.workers,
                           time + 1, base_cost, iter)

\* the u32 returned by execution_time(num_workers, base_cost) on the graph g
execution_time(g, num_workers, base_cost) ==
    time_loop(g.nodes, g.completed, g.exec_queue, new_workers(num_workers),
              0, base_cost, AscendingIter(g.nodes))

\* ------------------------------------------------------------------ state
VARIABLES
    input,       \* the lines given to Graph::new
    nodes,       \* Graph.nodes
    completed,   \* Graph.completed
    exec_queue,  \* Graph.exec_queue
    pc,          \* position of the caller: "ready", "order", "assign",
                 \* "check", "complete", "tick", "done"
    call,        \* the call in progress (or the last one)
    result,      \* execution_order: result
    time,        \* execution_time: time
    workers,     \* execution_time: workers
    ret,         \* what the last calls returned: the String of
                 \* execution_order, the u32 of execution_time
    prior,       \* an earlier call on this Graph ran a scheduler
    assigned,    \* history: assignments of the current run
    finished,    \* history: complete_node calls of the current run
    probe        \* a call of Node::cost alone: its arguments and outcome

vars == <<input, nodes, completed, exec_queue, pc, call, result, time,
          workers, ret, prior, assigned, finished, probe>>

\* no call has returned yet
NoRet == [order |-> <<>>, time |-> 0]

\* Node::cost is not called alone
NoProbe == [op |-> "none"]

NoCall == [op |-> "none", num_workers |-> 0, base_cost |-> 0, fresh |-> TRUE]

\* the graph is in a state Graph::new may have left it in
IsFresh ==
    /\ completed = {}
    /\ \E order \in iter_orders(roots(nodes)) :
           exec_queue = push_roots(nodes, EmptyBag, order)

InitWith(inputs) ==
    /\ input \in inputs
    /\ \E order \in root_orders(input) :
           /\ nodes = Graph_new_in(input, order).nodes
           /\ completed = Graph_new_in(input, order).completed
           /\ exec_queue = Graph_new_in(input, order).exec_queue
    /\ pc = "ready"
    /\ call = NoCall
    /\ result = <<>>
    /\ time = 0
    /\ workers = new_workers(0)
    /\ ret = NoRet
    /\ prior = FALSE
    /\ assigned = <<>>
    /\ finished = <<>>
    /\ probe = NoProbe

Init == InitWith(Inputs)

LiveInit == InitWith(LiveInputs)

\* no call is in progress
CanCall == pc \in {"ready", "done"}

\* the call c ran a scheduler: execution_order, or execution_time with a
\* worker
RanScheduler(c) ==
    \/ c.op = "execution_order"
    \/ c.op = "execution_time" /\ c.num_workers >= 1

\* graph.execution_order() is called
CallExecutionOrder ==
    /\ CanCall
    /\ call' = [op |-> "execution_order", num_workers |-> 0, base_cost |-> 0,
                fresh |-> IsFresh]
    /\ result' = <<>>
    /\ time' = 0
    /\ workers' = new_workers(0)
    /\ assigned' = <<>>
    /\ finished' = <<>>
    /\ ret' = NoRet
    /\ prior' = (prior \/ RanScheduler(call))
    /\ pc' = "order"
    /\ UNCHANGED <<input, nodes, completed, exec_queue, probe>>

\* while let Some(node_id) = self.next() { complete_node; result.push }
OrderStep ==
    /\ pc = "order"
    /\ next(exec_queue).some
    /\ \E iter \in IterOrders(nodes, {next(exec_queue).value}) :
           LET s == order_step(nodes, completed, exec_queue, result, iter)
           IN  /\ nodes' = s.nodes
               /\ completed' = s.completed
               /\ exec_queue' = s.exec_queue
               /\ result' = s.result
               /\ finished' = Append(finished,
                     [node |-> s.result[Len(s.result)], worker |-> 0,
                      time |-> 0])
    /\ UNCHANGED <<input, pc, call, time, workers, ret, prior, assigned,
                   probe>>

\* self.next() is None: result.iter().collect() is returned
OrderReturn ==
    /\ pc = "order"
    /\ ~next(exec_queue).some
    /\ ret' = [ret EXCEPT !.order = result]
    /\ pc' = "done"
    /\ UNCHANGED <<input, nodes, completed, exec_queue, call, result, time,
                   workers, prior, assigned, finished, probe>>

\* graph.execution_time(num_workers, base_cost) is called
CallExecutionTime(num_workers, base_cost) ==
    /\ CanCall
    /\ call' = [op |-> "execution_time", num_workers |-> num_workers,
                base_cost |-> base_cost, fresh |-> IsFresh]
    /\ result' = <<>>
    /\ time' = 0
    /\ workers' = new_workers(num_workers)
    /\ assigned' = <<>>
    /\ finished' = <<>>
    /\ ret' = NoRet
    /\ prior' = (prior \/ RanScheduler(call))
    /\ pc' = "assign"
    /\ UNCHANGED <<input, nodes, completed, exec_queue, probe>>

\* check if worker is free and assign if so
TimeAssign ==
    /\ pc = "assign"
    /\ \E a \in {assign_phase(nodes, exec_queue, workers, assigned, time,
                              call.base_cost)} :
           /\ workers' = a.workers
           /\ exec_queue' = a.exec_queue
           /\ assigned' = a.log
    /\ pc' = "check"
    /\ UNCHANGED <<input, nodes, completed, call, result, time, ret, prior,
                   finished, probe>>

\* a termination check that returns the tick after the current one
TimeCheck_returns_next_tick ==
    /\ pc = "check"
    /\ IF all_idle(workers)
       THEN /\ ret' = [ret EXCEPT !.time = time + 1]
            /\ pc' = "done"
       ELSE /\ ret' = ret
            /\ pc' = "complete"
    /\ UNCHANGED <<input, nodes, completed, exec_queue, call, result, time,
                   workers, prior, assigned, finished, probe>>

\* if all workers are idle, there is no work left: break and return time
TimeCheck ==
    /\ pc = "check"
    /\ IF all_idle(workers)
       THEN /\ ret' = [ret EXCEPT !.time = time]
            /\ pc' = "done"
       ELSE /\ ret' = ret
            /\ pc' = "complete"
    /\ UNCHANGED <<input, nodes, completed, exec_queue, call, result, time,
                   workers, prior, assigned, finished, probe>>

\* check if worker has completed their work
TimeComplete ==
    /\ pc = "complete"
    /\ \E iter \in IterOrders(nodes,
               {workers[i].node : i \in {j \in DOMAIN workers :
                                              workers[j] # Idle}}) :
           \E c \in {complete_phase(nodes, completed, exec_queue, workers,
                                    finished, time, iter)} :
               /\ nodes' = c.nodes
               /\ workers' = c.workers
               /\ completed' = c.completed
               /\ exec_queue' = c.exec_queue
               /\ finished' = c.log
    /\ pc' = "tick"
    /\ UNCHANGED <<input, call, result, time, ret, prior, assigned, probe>>

\* a clock that moves on by two
TimeTick_by_two ==
    /\ pc = "tick"
    /\ time' = time + 2
    /\ pc' = "assign"
    /\ UNCHANGED <<input, nodes, completed, exec_queue, call, result, workers,
                   ret, prior, assigned, finished, probe>>

\* time moves on
TimeTick ==
    /\ pc = "tick"
    /\ time' = time + 1
    /\ pc' = "assign"
    /\ UNCHANGED <<input, nodes, completed, exec_queue, call, result, workers,
                   ret, prior, assigned, finished, probe>>

\* a step of the call in progress
Step ==
    \/ OrderStep
    \/ OrderReturn
    \/ TimeAssign
    \/ TimeCheck
    \/ TimeComplete
    \/ TimeTick

Next ==
    \/ CallExecutionOrder
    \/ \E n \in 0 .. MaxWorkers, b \in 0 .. MaxBaseCost :
           CallExecutionTime(n, b)
    \/ Step

Spec == Init /\ [][Next]_vars

\* the call in progress runs on: a sequential program takes its next step
FairSpec == LiveInit /\ [][Next]_vars /\ WF_vars(Step)

\* ------------------------------------------------------ Node::cost alone
\* the base costs given to Node::cost alone
CostBases ==
    {[hi |-> 0, lo |-> k] : k \in 0 .. MaxCostOffset}
        \cup {u32(100 - 40), u32(100)}
        \cup {[hi |-> 0, lo |-> Limb - 1 - k] : k \in 0 .. MaxCostOffset}
        \cup {[hi |-> Limb - 1, lo |-> Limb - 1 - k] :
                 k \in 0 .. (Ord_Z - Ord_A + MaxCostOffset)}

\* the identifiers given to Node::cost alone: 'A' .. 'Z'
CostIds == Ord_A .. Ord_Z

\* Node::new(id) is built and about to be asked its cost
CostInit ==
    /\ input = <<>>
    /\ nodes = Graph_new(input).nodes
    /\ completed = Graph_new(input).completed
    /\ exec_queue = Graph_new(input).exec_queue
    /\ pc = "ready"
    /\ call = NoCall
    /\ result = <<>>
    /\ time = 0
    /\ workers = new_workers(0)
    /\ ret = NoRet
    /\ prior = FALSE
    /\ assigned = <<>>
    /\ finished = <<>>
    /\ \E id \in CostIds, base_cost \in CostBases :
           probe = [op |-> "cost", node |-> Node_new(id),
                    base_cost |-> base_cost, done |-> FALSE,
                    out |-> [panic |-> FALSE, value |-> u32(0)]]

\* node.cost(base_cost) is called
ApplyCost ==
    /\ probe.op = "cost"
    /\ ~probe.done
    /\ \E out \in Node_cost_outcomes(probe.node, probe.base_cost) :
           probe' = [probe EXCEPT !.done = TRUE, !.out = out]
    /\ UNCHANGED <<input, nodes, completed, exec_queue, pc, call, result,
                   time, workers, ret, prior, assigned, finished>>

CostNext == ApplyCost

CostSpec == CostInit /\ [][CostNext]_vars

\* ------------------------------------------------------ Graph::new alone
\* 'a' as u32: a character that [A-Z] does not match
Ord_a == 97

\* the lines of s given to Graph::new alone, each line being the pair of
\* characters that stand where the regex expects the source and the
\* destination: every sequence of at most MaxLines lines over 'A', 'B', 'C'
\* and 'a', repeated lines and every order of the lines included
BuildChars == {Ord_A, Ord_A + 1, Ord_A + 2, Ord_a}

RECURSIVE SeqsUpTo(_, _)
SeqsUpTo(S, k) ==
    IF k = 0 THEN {<<>>}
    ELSE LET P == SeqsUpTo(S, k - 1)
         IN  P \cup {Append(p, x) : p \in P, x \in S}

BuildInputs == SeqsUpTo(BuildChars \X BuildChars, MaxLines)

\* RE.captures(l): Some(caps) exactly when [A-Z] matches the character at
\* the source and the character at the destination
captures(l) ==
    IF l[1] \in Ord_A .. Ord_Z /\ l[2] \in Ord_A .. Ord_Z
    THEN [some |-> TRUE, source |-> l[1], destination |-> l[2]]
    ELSE [some |-> FALSE, source |-> 0, destination |-> 0]

\* for l in s.lines(): the number of the first line, from line i on, on
\* which RE.captures(l).unwrap() panics; 0 when there is none
RECURSIVE first_panic(_, _)
first_panic(lines, i) ==
    IF i > Len(lines) THEN 0
    ELSE IF ~captures(lines[i]).some THEN i
    ELSE first_panic(lines, i + 1)

\* the lines on which RE.captures(l) is Some(caps)
RECURSIVE captured(_)
captured(lines) ==
    IF lines = <<>> THEN <<>>
    ELSE IF captures(Head(lines)).some
         THEN <<Head(lines)>> \o captured(Tail(lines))
         ELSE captured(Tail(lines))

\* what a call of Graph::new returns to its caller
Returned(g) ==
    [panic |-> FALSE, line |-> 0, returned |-> TRUE, nodes |-> g.nodes,
     completed |-> g.completed, exec_queue |-> g.exec_queue]

\* a Graph::new that passes over the lines it cannot parse
Graph_new_outcomes_skipping(s) ==
    {Returned(Graph_new_in(captured(s), order)) :
        order \in root_orders(captured(s))}

\* the outcomes of Graph::new(s): the panic of unwrap() at the first line
\* that captures nothing, the HashMap built so far being dropped; otherwise
\* the Graph, for every order in which nodes.values() may yield the roots
Graph_new_outcomes(s) ==
    IF first_panic(s, 1) # 0
    THEN {[panic |-> TRUE, line |-> first_panic(s, 1), returned |-> FALSE,
           nodes |-> <<>>, completed |-> {}, exec_queue |-> EmptyBag]}
    ELSE {Returned(Graph_new_in(s, order)) : order \in root_orders(s)}

\* Graph::new is about to be called on the lines of probe.s
BuildInit ==
    /\ input = <<>>
    /\ nodes = Graph_new(input).nodes
    /\ completed = Graph_new(input).completed
    /\ exec_queue = Graph_new(input).exec_queue
    /\ pc = "ready"
    /\ call = NoCall
    /\ result = <<>>
    /\ time = 0
    /\ workers = new_workers(0)
    /\ ret = NoRet
    /\ prior = FALSE
    /\ assigned = <<>>
    /\ finished = <<>>
    /\ \E s \in BuildInputs :
           probe = [op |-> "new", s |-> s, done |-> FALSE,
                    out |-> [panic |-> FALSE, line |-> 0, returned |-> FALSE,
                             nodes |-> <<>>, completed |-> {},
                             exec_queue |-> EmptyBag]]

\* Graph::new(s) is called
ApplyGraphNew ==
    /\ probe.op = "new"
    /\ ~probe.done
    /\ \E out \in Graph_new_outcomes(probe.s) :
           probe' = [probe EXCEPT !.done = TRUE, !.out = out]
    /\ UNCHANGED <<input, nodes, completed, exec_queue, pc, call, result,
                   time, workers, ret, prior, assigned, finished>>

BuildNext == ApplyGraphNew

BuildSpec == BuildInit /\ [][BuildNext]_vars

\* ================================================================ claims
\* The graph the input describes, read off the input lines themselves.
EdgeSet == {input[i] : i \in 1 .. Len(input)}

TaskIds == {e[1] : e \in EdgeSet} \cup {e[2] : e \in EdgeSet}

DepsOf(v) == {e[1] : e \in {x \in EdgeSet : x[2] = v}}

UnlocksOf(u) == {e[2] : e \in {x \in EdgeSet : x[1] = u}}

RECURSIVE ReachFrom(_)
ReachFrom(S) ==
    LET T == S \cup UNION {UnlocksOf(u) : u \in S}
    IN  IF T = S THEN S ELSE ReachFrom(T)

\* the tasks reachable from u by one edge or more
Descendants(u) == ReachFrom(UnlocksOf(u))

OnCycle(u) == u \in Descendants(u)

HasCycle == \E u \in TaskIds : OnCycle(u)

IsDAG == ~HasCycle

\* v lies on a cycle or has an ancestor on a cycle
Blocked(v) == \E u \in TaskIds : OnCycle(u) /\ (v = u \/ v \in Descendants(u))

SeqSet(s) == {s[i] : i \in 1 .. Len(s)}

Pos(s, x) == CHOOSE i \in 1 .. Len(s) : s[i] = x

MinOf(S) == CHOOSE x \in S : \A y \in S : x <= y

RECURSIVE SumOver(_, _)
SumOver(S, base_cost) ==
    IF S = {} THEN 0
    ELSE LET x == CHOOSE y \in S : TRUE
         IN  (x - Ord_A + base_cost) + SumOver(S \ {x}, base_cost)

\* the value the last call returned
LastRet == IF call.op = "execution_order" THEN ret.order ELSE ret.time

\* execution_order has returned from a run that started on a fresh Graph
OrderDone ==
    pc = "done" /\ call.op = "execution_order" /\ call.fresh

\* execution_time(n, b), n >= 1, has returned from a run that started on a
\* fresh Graph
TimeDone ==
    pc = "done" /\ call.op = "execution_time" /\ call.fresh
        /\ call.num_workers >= 1

\* ---------------------------------------------------------------------- C1
\* C1: on an acyclic edge set, execution_order on a freshly built Graph
\* returns every registered task exactly once, and for every edge (u -> v)
\* u stands strictly before v.
C1_TopologicalPermutation ==
    (OrderDone /\ IsDAG) =>
        /\ Len(LastRet) = Cardinality(DOMAIN nodes)
        /\ SeqSet(LastRet) = DOMAIN nodes
        /\ \A e \in EdgeSet :
              /\ e[1] \in SeqSet(LastRet)
              /\ e[2] \in SeqSet(LastRet)
              /\ Pos(LastRet, e[1]) < Pos(LastRet, e[2])

\* execution_order returned on a DAG where a task has two dependencies
C1_Witness ==
    /\ OrderDone /\ IsDAG
    /\ \E v \in TaskIds : Cardinality(DepsOf(v)) >= 2
    /\ Len(LastRet) >= 3

\* ---------------------------------------------------------------------- C2
\* the tasks not in the set P whose dependencies are all in P
ReadyAfter(P) == {v \in TaskIds \ P : DepsOf(v) \subseteq P}

RECURSIVE TopoOrdersFrom(_)
TopoOrdersFrom(P) ==
    IF P = TaskIds THEN {<<>>}
    ELSE UNION {{<<v>> \o t : t \in TopoOrdersFrom(P \cup {v})} :
                   v \in ReadyAfter(P)}

\* all the topological orders of the input graph
TopoOrders == TopoOrdersFrom({})

LexLeq(a, b) ==
    \/ a = b
    \/ \E i \in 1 .. Len(a) :
          /\ i <= Len(b)
          /\ a[i] < b[i]
          /\ \A j \in 1 .. (i - 1) : a[j] = b[j]

\* C2: at every step of execution_order on a DAG the identifier emitted is
\* the smallest of the tasks not yet emitted whose dependencies have all been
\* emitted; the result is the lexicographically smallest topological order,
\* and it is "CABDFE" for the sample edges.
C2_SmallestReadyFirst ==
    (call.op = "execution_order" /\ call.fresh /\ IsDAG) =>
        /\ \A i \in 1 .. Len(result) :
              LET P == {result[j] : j \in 1 .. (i - 1)}
              IN  /\ ReadyAfter(P) # {}
                  /\ result[i] = MinOf(ReadyAfter(P))
        /\ pc = "done" =>
              /\ LastRet \in TopoOrders
              /\ \A t \in TopoOrders : LexLeq(LastRet, t)
              /\ input = TEST_INPUT => LastRet = <<67, 65, 66, 68, 70, 69>>

\* execution_order returned on a DAG with several topological orders, having
\* emitted a task while a larger one was ready
C2_Witness ==
    /\ OrderDone /\ IsDAG
    /\ Cardinality(TopoOrders) >= 2
    /\ \E i \in 1 .. Len(result) :
          Cardinality(ReadyAfter({result[j] : j \in 1 .. (i - 1)})) >= 2

\* ---------------------------------------------------------------------- C3
\* C3: for the sample graph, execution_time(2, 0) on a fresh Graph returns 15.
C3_SampleTime ==
    (TimeDone /\ input = TEST_INPUT /\ call.num_workers = 2
        /\ call.base_cost = 0) => LastRet = 15

\* execution_time(2, 0) returned on the sample graph with all six tasks done
C3_Witness ==
    /\ TimeDone /\ input = TEST_INPUT
    /\ call.num_workers = 2 /\ call.base_cost = 0
    /\ Len(finished) = 6

\* ---------------------------------------------------------------------- C4
\* a single chain: a DAG with one root in which every task has at most one
\* dependency and unlocks at most one task
IsChain ==
    /\ IsDAG
    /\ TaskIds # {}
    /\ Cardinality({v \in TaskIds : DepsOf(v) = {}}) = 1
    /\ \A v \in TaskIds :
          Cardinality(DepsOf(v)) <= 1 /\ Cardinality(UnlocksOf(v)) <= 1

ChainRun ==
    TimeDone /\ IsChain /\ call.num_workers = 1 /\ call.base_cost = 0

\* C4 as stated: on a pure chain, execution_time(1, 0) returns the sum over
\* all tasks of cost(id, 0).
C4_ChainTimeIsSumOfCosts ==
    ChainRun => LastRet = SumOver(TaskIds, 0)

\* C4 as amended: on a pure chain, execution_time(1, 0) returns the sum over
\* all tasks of cost(id, 0) + 1: a task of cost c holds the worker for the
\* ticks t .. t + c.
C4_ChainTimeIsSumOfCostsPlusOne ==
    ChainRun => LastRet = SumOver(TaskIds, 0) + Cardinality(TaskIds)

\* execution_time(1, 0) returned on a chain of three tasks
C4_Witness ==
    ChainRun /\ Cardinality(TaskIds) = 3 /\ Len(finished) = 3

\* ---------------------------------------------------------------------- C5
\* the value execution_time(n, b) returns on a Graph freshly built from the
\* input
FreshTime(n, b) == execution_time(Graph_new(input), n, b)

\* C5 as stated: for 1 <= n < m, execution_time(m, b) on a fresh graph is at
\* most execution_time(n, b) on a fresh graph of the same edges.  Here n is
\* the worker count of the run that returned and m ranges over the larger
\* counts.
C5_MoreWorkersNeverSlower ==
    (TimeDone /\ IsDAG) =>
        \A m \in (call.num_workers + 1) .. (MaxWorkers + 1) :
            FreshTime(m, call.base_cost) <= LastRet

\* C5 as amended: for every m >= 1, execution_time(m, b) on a fresh graph is
\* at most execution_time(1, b) on a fresh graph of the same edges.
C5_NeverSlowerThanOneWorker ==
    (TimeDone /\ IsDAG) => LastRet <= FreshTime(1, call.base_cost)

\* a run with two workers or more returned on a DAG, in fewer ticks than one
\* worker needs
C5_Witness ==
    /\ TimeDone /\ IsDAG
    /\ call.num_workers >= 2
    /\ LastRet < FreshTime(1, call.base_cost)

\* ---------------------------------------------------------------------- C6
WorkingNodes == {i \in DOMAIN workers : workers[i] # Idle}

\* C6: in a run of execution_time (num_workers >= 1) on a DAG every task is
\* assigned to a worker exactly once: no identifier is popped twice, no two
\* workers hold the same task, no task is assigned after it completed, and
\* when the run returns every task has been assigned.
C6_AssignedExactlyOnce ==
    (call.op = "execution_time" /\ call.fresh /\ call.num_workers >= 1
        /\ IsDAG) =>
        /\ \A i, j \in 1 .. Len(assigned) :
              i # j => assigned[i].node # assigned[j].node
        /\ \A i, j \in WorkingNodes :
              i # j => workers[i].node # workers[j].node
        /\ \A i \in 1 .. Len(assigned) : \A k \in 1 .. Len(finished) :
              finished[k].node = assigned[i].node =>
                  assigned[i].time <= finished[k].time
        /\ \A i \in WorkingNodes : workers[i].node \notin completed
        /\ pc = "done" =>
              {assigned[i].node : i \in 1 .. Len(assigned)} = DOMAIN nodes

\* a run with two workers returned on a DAG in which a task has two
\* dependencies, both workers having been busy in the same tick
C6_Witness ==
    /\ TimeDone /\ IsDAG
    /\ call.num_workers = 2
    /\ \E v \in TaskIds : Cardinality(DepsOf(v)) >= 2
    /\ \E i, j \in 1 .. Len(assigned) :
          i # j /\ assigned[i].time = assigned[j].time
    /\ Len(assigned) = Cardinality(TaskIds)

\* ---------------------------------------------------------------------- C7
\* C7: a task is assigned only when each of its dependencies is in the
\* completed set; for every edge (u -> v), v is assigned at a tick strictly
\* greater than the tick at which u was marked completed.
C7_AssignedAfterDependencies ==
    call.op = "execution_time" =>
        \A i \in 1 .. Len(assigned) : \A u \in DepsOf(assigned[i].node) :
            /\ u \in completed
            /\ \E k \in 1 .. Len(finished) :
                  /\ finished[k].node = u
                  /\ finished[k].time < assigned[i].time

\* a task with two dependencies has been assigned
C7_Witness ==
    /\ call.op = "execution_time"
    /\ \E i \in 1 .. Len(assigned) :
          Cardinality(DepsOf(assigned[i].node)) >= 2

\* ---------------------------------------------------------------------- C8
TimeReturned ==
    pc = "done" /\ call.op = "execution_time" /\ call.num_workers >= 1

\* C8: on a DAG with num_workers >= 1, execution_time terminates, and when it
\* returns every worker is Idle, the frontier is empty and every task is in
\* the completed set.
C8_TerminatesDrained ==
    /\ []((TimeReturned /\ IsDAG) =>
            /\ \A i \in DOMAIN workers : workers[i] = Idle
            /\ BagToSet(exec_queue) = {}
            /\ completed = DOMAIN nodes
            /\ LastRet = time)
    /\ (pc = "assign" /\ call.num_workers >= 1 /\ IsDAG) ~> (pc = "done")

\* execution_time returned on a DAG after it completed three tasks or more
C8_Witness ==
    /\ TimeReturned /\ IsDAG /\ call.fresh
    /\ Len(finished) >= 3
    /\ LastRet > 0

\* ---------------------------------------------------------------------- C9
\* the call is execution_order, or execution_time with a worker
RunsScheduler == RanScheduler(call)

\* C9 as stated: on an input with a dependency cycle neither execution_order
\* nor execution_time ever returns.
C9_CyclicNeverReturns ==
    (HasCycle /\ RunsScheduler) => pc # "done"

\* C9 as amended: on an input with a dependency cycle both execution_order
\* and execution_time return; the run completes exactly the tasks that are
\* neither on a cycle nor below one and leaves the others uncompleted.
C9_CyclicReturnsPartial ==
    /\ []((HasCycle /\ RunsScheduler /\ call.fresh /\ pc = "done") =>
            /\ completed = {v \in TaskIds : ~Blocked(v)}
            /\ completed # DOMAIN nodes
            /\ BagToSet(exec_queue) = {}
            /\ call.op = "execution_order" => SeqSet(LastRet) = completed)
    /\ (HasCycle /\ RunsScheduler /\ pc \in {"order", "assign"})
           ~> (pc = "done")

\* a run returned on a cyclic input after completing a task, a task below
\* the cycle being left out
C9_Witness ==
    /\ HasCycle /\ RunsScheduler /\ call.fresh /\ pc = "done"
    /\ completed # {}
    /\ \E v \in TaskIds : Blocked(v) /\ ~OnCycle(v)
    /\ Cardinality(completed) >= 2

\* --------------------------------------------------------------------- C10
\* what the last call would have returned on a Graph freshly built from the
\* input
FreshRet ==
    IF call.op = "execution_order"
    THEN execution_order(Graph_new(input))
    ELSE FreshTime(call.num_workers, call.base_cost)

\* a call before the last one ran a scheduler on this Graph
EarlierRun == prior

\* C10 as stated: after an earlier call on a Graph, a later call on the same
\* Graph returns what it returns on a freshly built Graph.
C10_ReuseGivesFreshResult ==
    (pc = "done" /\ EarlierRun) => LastRet = FreshRet

\* a second call returned on a Graph whose first call had completed tasks:
\* completed and exec_queue are fields of the Graph that no call resets, so
\* the call found the frontier empty, completed nothing and returned the
\* empty string or 0, which differs from the result on a fresh Graph
C10_Witness ==
    /\ pc = "done" /\ EarlierRun
    /\ completed # {}
    /\ finished = <<>>
    /\ LastRet = IF call.op = "execution_order" THEN <<>> ELSE 0
    /\ LastRet # FreshRet

\* --------------------------------------------------------------------- C11
\* C11: execution_order and execution_time are functions of the edge set:
\* whatever order the root push met the nodes in and whatever order each
\* complete_node visited the unlocks in, a call on a freshly built Graph
\* returns what the call returns when every iteration is ascending.
C11_IterationOrderIrrelevant ==
    (pc = "done" /\ call.fresh) => LastRet = FreshRet

\* a call has returned on a fresh Graph with several roots, after completing
\* a node that unlocks several nodes
C11_Witness ==
    /\ pc = "done"
    /\ call.fresh
    /\ RunsScheduler
    /\ Cardinality(roots(nodes)) >= 2
    /\ \E v \in completed : Cardinality(nodes[v].unlocks) >= 2

\* --------------------------------------------------------------------- C12
\* C12: on the empty edge set, which registers no task, execution_order
\* returns the empty sequence and execution_time returns 0, whatever
\* num_workers and base_cost are.
C12_EmptyGraphReturnsNothing ==
    (input = <<>> /\ pc = "done") =>
        /\ DOMAIN nodes = {}
        /\ call.op = "execution_order" => LastRet = <<>>
        /\ call.op = "execution_time" => LastRet = 0

\* execution_time with workers and a base cost has returned on the Graph of
\* the empty input, after an earlier call on it
C12_Witness ==
    /\ input = <<>>
    /\ pc = "done"
    /\ call.op = "execution_time"
    /\ call.num_workers = MaxWorkers
    /\ call.base_cost = MaxBaseCost
    /\ EarlierRun

\* --------------------------------------------------------------------- C13
MaxOf(S) == CHOOSE x \in S : \A y \in S : x >= y

\* the completion_time of every assignment of the run: the tick of the
\* assignment plus (ordinal(id) - ordinal('A')) + base_cost
CompletionTimes ==
    {assigned[i].time + (assigned[i].node - Ord_A) + call.base_cost :
        i \in 1 .. Len(assigned)}

\* the ticks in which complete_node was called in the run
CompletionTicks == {finished[i].time : i \in 1 .. Len(finished)}

\* execution_time(n, b), n >= 1, has returned from a run on the fresh Graph
\* of a non-empty acyclic input
TimeDoneOnDAG == TimeDone /\ IsDAG /\ TaskIds # {}

\* C13 as stated: on a non-empty DAG the value execution_time returns is the
\* largest completion_time (assignment tick + cost) of any task, the tick at
\* which the last task completes.
C13_TimeIsLargestCompletionTime ==
    TimeDoneOnDAG => LastRet = MaxOf(CompletionTimes)

\* C13, amended: on a non-empty DAG the largest completion_time of any task
\* is the tick in which the last task completes, and execution_time returns
\* that tick plus one.
C13_TimeIsLargestCompletionTimePlusOne ==
    TimeDoneOnDAG =>
        /\ MaxOf(CompletionTimes) = MaxOf(CompletionTicks)
        /\ LastRet = MaxOf(CompletionTimes) + 1

\* execution_time with two workers has returned on a DAG of three tasks or
\* more, two of them assigned in the same tick
C13_Witness ==
    /\ TimeDoneOnDAG
    /\ call.num_workers >= 2
    /\ Cardinality(TaskIds) >= 3
    /\ LastRet = MaxOf(CompletionTicks) + 1
    /\ \E i, j \in 1 .. Len(assigned) :
           i # j /\ assigned[i].time = assigned[j].time

\* --------------------------------------------------------------------- C14
\* (ordinal(id) - ordinal('A')) + base_cost as a number, in limbs: hi may
\* reach 2^16, for a sum that exceeds u32::MAX
WideCost(id, base_cost) ==
    [hi |-> base_cost.hi + ((base_cost.lo + (id - Ord_A)) \div Limb),
     lo |-> (base_cost.lo + (id - Ord_A)) % Limb]

\* comparison of two numbers in limbs
WideLess(a, b) == a.hi < b.hi \/ (a.hi = b.hi /\ a.lo < b.lo)

WideLeq(a, b) == a = b \/ WideLess(a, b)

\* Node::cost has been called alone
CostDone == probe.op = "cost" /\ probe.done

\* the properties C14 gives the value Node::cost returned for the node and the
\* base cost of the call: it is (ordinal(id) - ordinal('A')) + base_cost, at
\* least base_cost, at most base_cost + 25, obtained without underflow, and
\* below the value returned for any later identifier
CostAsClaimed ==
    /\ ~probe.out.panic
    /\ probe.out.value = WideCost(probe.node.id, probe.base_cost)
    /\ WideLeq(probe.base_cost, probe.out.value)
    /\ WideLeq(probe.out.value, WideCost(Ord_A + 25, probe.base_cost))
    /\ ~u32_sub(u32(probe.node.id), u32(Ord_A)).overflow
    /\ \A id \in CostIds :
           probe.node.id < id =>
               \A o \in Node_cost_outcomes(Node_new(id), probe.base_cost) :
                   ~o.panic /\ WideLess(probe.out.value, o.value)
    /\ (probe.base_cost = u32(100) /\ probe.node.id = Ord_A)
           => probe.out.value = u32(100)
    /\ (probe.base_cost = u32(100) /\ probe.node.id = Ord_Z)
           => probe.out.value = u32(125)

\* base_cost + 25 is a u32
CostFits == WideLeq(WideCost(Ord_A + 25, probe.base_cost), u32_MAX)

\* C14 as stated: for every identifier in 'A'..'Z' and every base_cost,
\* Node::cost returns (ordinal(id) - ordinal('A')) + base_cost, which is at
\* least base_cost, at most base_cost + 25, never underflows and is strictly
\* increasing in the identifier; cost('A', 100) = 100, cost('Z', 100) = 125.
C14_CostForEveryBaseCost ==
    CostDone => CostAsClaimed

\* C14, amended: the same for every base_cost of at most u32::MAX - 25; for
\* a larger base_cost the subtraction still never underflows, and for the
\* identifiers whose sum exceeds u32::MAX the call panics or returns the sum
\* less 2^32, which is below base_cost. (For a base_cost below 2^16 the
\* value is the number Node_cost that the scheduler runs compute with.)
C14_CostForBaseCostThatFits ==
    CostDone =>
        /\ CostFits => CostAsClaimed
        /\ probe.base_cost.hi = 0 =>
               u32_value(probe.out.value)
                   = Node_cost(probe.node, probe.base_cost.lo)
        /\ ~u32_sub(u32(probe.node.id), u32(Ord_A)).overflow
        /\ ~WideLeq(WideCost(probe.node.id, probe.base_cost), u32_MAX) =>
               \/ probe.out.panic
               \/ /\ probe.out.value.hi = 0
                  /\ probe.out.value.lo
                        = WideCost(probe.node.id, probe.base_cost).lo
                  /\ WideLess(probe.out.value, probe.base_cost)

\* Node::cost has returned u32::MAX for 'Z' and the base cost u32::MAX - 25
C14_Witness ==
    /\ CostDone
    /\ probe.node.id = Ord_Z
    /\ CostFits
    /\ ~probe.out.panic
    /\ probe.out.value = u32_MAX

\* --------------------------------------------------------------------- C15
\* the identifiers that are the destination of an edge
Destinations == {e[2] : e \in EdgeSet}

\* C15: Graph::new registers exactly the identifiers that occur as a source
\* or a destination, one node each, with unlocks(s) = {d : (s, d) an edge}
\* and dependencies(d) = {s : (s, d) an edge}; a task has no dependencies
\* exactly when it is never a destination.
C15_GraphNewRegistersEdges ==
    /\ DOMAIN nodes = TaskIds
    /\ \A v \in DOMAIN nodes :
           /\ nodes[v].id = v
           /\ nodes[v].unlocks = UnlocksOf(v)
           /\ nodes[v].dependencies = DepsOf(v)
           /\ (nodes[v].dependencies = {}) <=> (v \notin Destinations)

\* Graph::new has just built a Graph in which a node has several
\* dependencies and a node unlocks several nodes
C15_Witness ==
    /\ pc = "ready"
    /\ call = NoCall
    /\ \E v \in DOMAIN nodes : Cardinality(nodes[v].dependencies) >= 2
    /\ \E u \in DOMAIN nodes : Cardinality(nodes[u].unlocks) >= 2
    /\ \E r \in DOMAIN nodes : nodes[r].dependencies = {}

\* --------------------------------------------------------------------- C16
\* the identifiers held by a Working worker
Held == {workers[i].node : i \in WorkingNodes}

\* how many times x occurs in the sequence s
Count(s, x) == Cardinality({i \in 1 .. Len(s) : s[i] = x})

\* how many times v has been popped from the frontier in the current run
Popped(v) ==
    IF call.op = "execution_order" THEN Count(result, v)
    ELSE Cardinality({i \in 1 .. Len(assigned) : assigned[i].node = v})

\* how many times v has been pushed since Graph::new began: the copies still
\* in the frontier and those popped, on a Graph fresh at the start of the run
Pushed(v) == CopiesIn(v, exec_queue) + Popped(v)

\* C16: on a DAG, in every reachable state the frontier holds no identifier
\* twice, none that is completed and none held by a worker; and an identifier
\* has been pushed once if all its dependencies are completed (at
\* construction if it has none) and not at all otherwise. (Written as: this
\* holds, or the input has a cycle.)
C16_FrontierHoldsEachReadyTaskOnce ==
    \/ /\ \A x \in BagToSet(exec_queue) :
              /\ CopiesIn(x, exec_queue) = 1
              /\ x \notin completed
              /\ x \notin Held
       /\ call.fresh =>
              \A v \in TaskIds :
                  Pushed(v) = IF DepsOf(v) \subseteq completed THEN 1 ELSE 0
    \/ HasCycle

\* on a DAG a task pushed by complete_node waits in the frontier while a
\* worker holds another task
C16_Witness ==
    /\ IsDAG
    /\ call.fresh
    /\ pc = "check"
    /\ Held # {}
    /\ \E x \in BagToSet(exec_queue) :
           DepsOf(x) # {} /\ DepsOf(x) \subseteq completed
    /\ \E v \in TaskIds : ~(DepsOf(v) \subseteq completed)

\* --------------------------------------------------------------------- C17
\* Graph::new has returned and no call has been made yet
JustBuilt == pc = "ready" /\ call = NoCall

\* C17: the frontier initially holds exactly the tasks with no dependencies,
\* and in every reachable state every identifier in the frontier has all its
\* dependencies in completed.
C17_FrontierIsReady ==
    /\ JustBuilt =>
           BagToSet(exec_queue) = {v \in TaskIds : DepsOf(v) = {}}
    /\ \A x \in BagToSet(exec_queue) : DepsOf(x) \subseteq completed

\* the frontier holds a task that complete_node pushed once the last of its
\* several dependencies was completed
C17_Witness ==
    /\ ~JustBuilt
    /\ \E x \in BagToSet(exec_queue) :
           Cardinality(DepsOf(x)) >= 2 /\ DepsOf(x) \subseteq completed

\* --------------------------------------------------------------------- C18
\* C18: after Graph::new and in every later state the two adjacency relations
\* are mutual inverses: A is in dependencies(B) exactly when B is in
\* unlocks(A), and both relate registered nodes only.
C18_DependenciesInverseOfUnlocks ==
    /\ \A a \in DOMAIN nodes :
           nodes[a].unlocks \cup nodes[a].dependencies \subseteq DOMAIN nodes
    /\ \A a, b \in DOMAIN nodes :
           (a \in nodes[b].dependencies) <=> (b \in nodes[a].unlocks)

\* a call has returned, having completed nodes, on a Graph in which a node
\* unlocks several nodes and a node depends on several nodes
C18_Witness ==
    /\ pc = "done"
    /\ completed # {}
    /\ \E a \in DOMAIN nodes : Cardinality(nodes[a].unlocks) >= 2
    /\ \E b \in DOMAIN nodes : Cardinality(nodes[b].dependencies) >= 2

\* --------------------------------------------------------------------- C19
\* C19: execution_order, execution_time and complete_node never change the
\* set of registered nodes nor the unlocks or the dependencies of a node (nor
\* the input the Graph was built from).
C19_NodesNeverChange ==
    [][/\ DOMAIN nodes' = DOMAIN nodes
       /\ \A v \in DOMAIN nodes :
              /\ nodes'[v].unlocks = nodes[v].unlocks
              /\ nodes'[v].dependencies = nodes[v].dependencies
              /\ nodes'[v].id = nodes[v].id
       /\ input' = input]_vars

\* after two scheduler runs that completed every node and changed completed
\* and the frontier, the nodes are still those Graph::new built
C19_Witness ==
    /\ pc = "done"
    /\ EarlierRun
    /\ RunsScheduler
    /\ Cardinality(DOMAIN nodes) >= 3
    /\ completed = DOMAIN nodes
    /\ exec_queue # Graph_new(input).exec_queue
    /\ nodes = Graph_new(input).nodes

\* --------------------------------------------------------------------- C20
\* the workers that are Idle, in ascending index
IdleWorkers == Ascending({i \in DOMAIN workers : workers[i] = Idle})

\* the identifiers in the frontier, in ascending order
ReadyTasks == Ascending(BagToSet(exec_queue))

\* the number of assignments an assignment phase makes
NumAssigned ==
    IF Len(IdleWorkers) <= Len(ReadyTasks) THEN Len(IdleWorkers)
    ELSE Len(ReadyTasks)

\* the assignments of the run made in tick t
AssignedAt(log, t) == {i \in 1 .. Len(log) : log[i].time = t}

\* what C20 says of the assignment phase of the tick `time`: the j-th idle
\* worker in ascending index receives the j-th smallest identifier of the
\* frontier, with completion_time = time + (ordinal(id) - ordinal('A')) +
\* base_cost, as long as both last; every other worker, Working ones
\* included, is left as it was; the identifiers handed out leave the
\* frontier; among the assignments of the tick a lower worker index holds a
\* smaller identifier.
AssignPhaseAsClaimed ==
    /\ DOMAIN workers' = DOMAIN workers
    /\ \A j \in 1 .. NumAssigned :
           workers'[IdleWorkers[j]] =
               Working(ReadyTasks[j],
                       time + (ReadyTasks[j] - Ord_A) + call.base_cost)
    /\ \A i \in DOMAIN workers :
           (\A j \in 1 .. NumAssigned : IdleWorkers[j] # i)
               => workers'[i] = workers[i]
    /\ exec_queue' = exec_queue
           (-) SetToBag({ReadyTasks[j] : j \in 1 .. NumAssigned})
    /\ Cardinality(AssignedAt(assigned', time)) = NumAssigned
    /\ \A i, j \in AssignedAt(assigned', time) :
           assigned'[i].worker < assigned'[j].worker
               => assigned'[i].node < assigned'[j].node

\* C20: in the assignment phase of a tick the idle workers are scanned in
\* ascending index and each receives the smallest identifier then in the
\* frontier, with completion_time = t + cost(id, base_cost); among the tasks
\* assigned in one tick a lower worker index holds a smaller identifier; a
\* Working worker is never reassigned.
C20_AssignmentPhase ==
    [][(pc = "assign" /\ pc' = "check") => AssignPhaseAsClaimed]_vars

\* an assignment phase has just given a task to the second worker while the
\* first still holds a task from an earlier tick
C20_Witness ==
    /\ pc = "check"
    /\ call.num_workers >= 2
    /\ workers[0] # Idle
    /\ workers[1] # Idle
    /\ \E i, j \in 1 .. Len(assigned) :
           /\ assigned[i].worker = 0
           /\ assigned[i].node = workers[0].node
           /\ assigned[i].time < time
           /\ assigned[j].worker = 1
           /\ assigned[j].node = workers[1].node
           /\ assigned[j].time = time

\* --------------------------------------------------------------------- C21
\* the workers whose task is over in the tick `time`: Working(id,
\* completion_time) with time >= completion_time
DueWorkers ==
    {i \in DOMAIN workers :
        workers[i] # Idle /\ time >= workers[i].completion_time}

\* the identifiers the workers due in the tick `time` hold
DueTasks == {workers[i].node : i \in DueWorkers}

\* what C21 says of the completion phase of the tick `time`: every worker
\* that is due becomes Idle and every other worker is left as it was; the
\* identifiers of the due workers, and nothing else, join completed; the
\* frontier gains one copy of every task that a due identifier unlocks and
\* whose dependencies are all completed by then, and nothing else.
CompletePhaseAsClaimed ==
    /\ DOMAIN workers' = DOMAIN workers
    /\ \A i \in DOMAIN workers :
           workers'[i] = IF i \in DueWorkers THEN Idle ELSE workers[i]
    /\ completed' = completed \cup DueTasks
    /\ exec_queue' = exec_queue
           (+) SetToBag({v \in TaskIds :
                   /\ DepsOf(v) \cap DueTasks # {}
                   /\ DepsOf(v) \subseteq completed'})

\* C21: in the completion phase of tick t every worker in Working(id,
\* completion_time) with t >= completion_time becomes Idle, id is added to
\* completed, and every task unlocked by id whose dependencies are now all
\* completed is pushed to the frontier; workers with completion_time > t and
\* Idle workers are left unchanged.
C21_CompletionPhase ==
    [][(pc = "complete" /\ pc' = "tick") => CompletePhaseAsClaimed]_vars

\* a completion phase has just set a worker Idle and pushed a task that its
\* identifier unlocks, while another worker keeps a task due in a later tick
C21_Witness ==
    /\ pc = "tick"
    /\ \E i, j \in DOMAIN workers :
           /\ workers[i] = Idle
           /\ workers[j] # Idle
           /\ workers[j].completion_time > time
           /\ \E k \in 1 .. Len(finished) :
                  /\ finished[k].worker = i
                  /\ finished[k].time = time
                  /\ finished[k].node \in completed
                  /\ \E x \in BagToSet(exec_queue) :
                         finished[k].node \in DepsOf(x)

\* --------------------------------------------------------------------- C22
\* the loop iterations of the current run of execution_time that did not
\* break: the ticks t in whose termination check a worker was Working, that
\* is, held a task assigned in tick t or before and not completed before t
CompletedIterations ==
    {t \in 0 .. time :
        \E i \in 1 .. Len(assigned) :
            /\ assigned[i].time <= t
            /\ ~\E k \in 1 .. Len(finished) :
                   /\ finished[k].node = assigned[i].node
                   /\ finished[k].worker = assigned[i].worker
                   /\ finished[k].time < t}

\* what C22 says of a step of execution_time
ClockAsClaimed ==
    /\ (CanCall /\ pc' = "assign") => time' = 0
    /\ (pc = "tick") => time' = time + 1
    /\ (pc \in {"assign", "check", "complete"}) => time' = time
    /\ (pc \in {"assign", "check", "complete", "tick"}) => time' >= time
    /\ (pc = "check" /\ pc' = "done") =>
           /\ ret'.time = time
           /\ ret'.time = Cardinality(CompletedIterations)

\* C22: in execution_time the clock starts at 0, is advanced by exactly 1 at
\* the end of every loop iteration that did not terminate, is never
\* decreased, and is changed nowhere else; the returned value is the number
\* of completed loop iterations.
C22_ClockCountsIterations ==
    [][ClockAsClaimed]_vars

\* execution_time has returned after three iterations or more, one of them
\* without any assignment or completion: a worker worked through it
C22_Witness ==
    /\ pc = "done"
    /\ call.op = "execution_time"
    /\ ret.time >= 3
    /\ ret.time = Cardinality(CompletedIterations)
    /\ \E t \in 0 .. ret.time - 1 :
           /\ AssignedAt(assigned, t) = {}
           /\ AssignedAt(finished, t) = {}

\* --------------------------------------------------------------------- C23
\* the number of tasks in progress: assigned in the run and not completed
InProgress == Len(assigned) - Len(finished)

\* C23: the worker pool is work-conserving and bounded: right after the
\* assignment phase of every tick either no worker is Idle or the frontier
\* is empty, and the number of tasks in progress never exceeds num_workers.
C23_WorkConservingAndBounded ==
    call.op = "execution_time" =>
        /\ pc = "check" =>
               \/ \A i \in DOMAIN workers : workers[i] # Idle
               \/ exec_queue = EmptyBag
        /\ InProgress <= call.num_workers
        /\ Cardinality(WorkingNodes) <= call.num_workers

\* after the assignment phase of a later tick every worker holds a task and
\* a ready task waits in the frontier
C23_Witness ==
    /\ call.op = "execution_time"
    /\ pc = "check"
    /\ time > 0
    /\ call.num_workers >= 1
    /\ \A i \in DOMAIN workers : workers[i] # Idle
    /\ InProgress = call.num_workers
    /\ exec_queue # EmptyBag

\* --------------------------------------------------------------------- C24
\* the workers that hold the task v
HeldBy(v) ==
    {i \in DOMAIN workers : workers[i] # Idle /\ workers[i].node = v}

\* which of the four states the task v is in: not yet ready (some dependency
\* not completed), in the frontier, held by a worker, completed
TaskStates(v) ==
    {s \in {"not ready", "frontier", "held", "completed"} :
        \/ s = "not ready" /\ ~(DepsOf(v) \subseteq completed)
        \/ s = "frontier" /\ CopiesIn(v, exec_queue) >= 1
        \/ s = "held" /\ HeldBy(v) # {}
        \/ s = "completed" /\ v \in completed}

\* in how many of the four states the task v is
NumStates(v) ==
    (IF DepsOf(v) \subseteq completed THEN 0 ELSE 1)
        + (IF CopiesIn(v, exec_queue) >= 1 THEN 1 ELSE 0)
        + (IF HeldBy(v) # {} THEN 1 ELSE 0)
        + (IF v \in completed THEN 1 ELSE 0)

\* how many times complete_node(v) has been called in the current run
Completions(v) ==
    Cardinality({k \in 1 .. Len(finished) : finished[k].node = v})

\* each task is in exactly one of the four states, a held task being held
\* by one worker; in a run of a scheduler (execution_order, or execution_time
\* with a worker) that started on a fresh Graph, complete_node has been
\* called once for each completed task and for no other, hence once per task
\* when the run returns
LifecycleAsClaimed ==
    /\ \A v \in TaskIds :
           /\ NumStates(v) = 1
           /\ Cardinality(HeldBy(v)) <= 1
    /\ (call.fresh /\ RunsScheduler) =>
           /\ \A v \in TaskIds :
                  Completions(v) = IF v \in completed THEN 1 ELSE 0
           /\ pc = "done" => \A v \in TaskIds : Completions(v) = 1

\* C24: in every reachable state of a run on a DAG each task is in exactly
\* one of four states: not yet ready, in the frontier, held by exactly one
\* worker, or completed; the completed set only grows; and complete_node is
\* invoked exactly once per task over the run. (Written over the steps of
\* the run: the state a step starts from is as claimed and completed does
\* not shrink in the step, or the input has a cycle.)
C24_TaskLifecycle ==
    [][\/ /\ LifecycleAsClaimed
          /\ completed \subseteq completed'
       \/ HasCycle]_vars

\* in a run of execution_time on a DAG the four states are all taken at
\* once: a task is completed, one is held, one waits in the frontier and one
\* is not yet ready
C24_Witness ==
    /\ IsDAG
    /\ call.fresh
    /\ call.op = "execution_time"
    /\ \E a, b, c, d \in TaskIds :
           /\ TaskStates(a) = {"completed"}
           /\ TaskStates(b) = {"held"}
           /\ TaskStates(c) = {"frontier"}
           /\ TaskStates(d) = {"not ready"}

\* --------------------------------------------------------------------- C25
\* cost(id, base_cost) for the base_cost of the current call
CostOf(v) == (v - Ord_A) + call.base_cost

\* the completions of the assignment assigned[i]: the calls of complete_node
\* for its task by its worker
CompletionsOf(i) ==
    {k \in 1 .. Len(finished) :
        /\ finished[k].node = assigned[i].node
        /\ finished[k].worker = assigned[i].worker
        /\ finished[k].time >= assigned[i].time}

\* C25: a task assigned at tick t with cost c is marked completed in the
\* completion phase of tick exactly t + c, and its worker receives another
\* task no earlier than tick t + c + 1: every task occupies its worker for
\* c + 1 ticks, a cost-0 task included. (Until the completion phase of tick
\* t + c is over the worker holds the task and the task is not completed.)
C25_CompletedAtAssignmentPlusCost ==
    call.op = "execution_time" =>
        \A i \in 1 .. Len(assigned) :
            LET t == assigned[i].time
                c == CostOf(assigned[i].node)
                w == assigned[i].worker
            IN  /\ \A k \in CompletionsOf(i) : finished[k].time = t + c
                /\ Cardinality(CompletionsOf(i)) <= 1
                /\ CompletionsOf(i) = {} =>
                       /\ workers[w] = Working(assigned[i].node, t + c)
                       /\ time <= t + c
                       /\ pc = "tick" => time < t + c
                /\ \A j \in 1 .. Len(assigned) :
                       (j > i /\ assigned[j].worker = w) =>
                           assigned[j].time >= t + c + 1

\* execution_time has returned from a run in which a worker completed a
\* cost-0 task in the tick of its assignment, received its next task in the
\* following tick and held that one for three ticks or more
C25_Witness ==
    /\ pc = "done"
    /\ call.op = "execution_time"
    /\ \E i, j \in 1 .. Len(assigned) :
           /\ CostOf(assigned[i].node) = 0
           /\ assigned[j].worker = assigned[i].worker
           /\ assigned[j].time = assigned[i].time + 1
           /\ CostOf(assigned[j].node) >= 2
           /\ \E k \in CompletionsOf(i) :
                  finished[k].time = assigned[i].time
           /\ \E k \in CompletionsOf(j) :
                  finished[k].time = assigned[j].time + CostOf(assigned[j].node)

\* --------------------------------------------------------------------- C26
\* the sum over the tasks of S of cost(id, base_cost) + 1
OccupancySum(S, base_cost) == SumOver(S, base_cost) + Cardinality(S)

\* a run of execution_time(1, base_cost) that started on a fresh Graph
OneWorkerRun ==
    call.op = "execution_time" /\ call.fresh /\ call.num_workers = 1

\* what C26 says of a state of a run of execution_time(1, base_cost): once
\* the run has returned, the value returned is the sum over all tasks of
\* cost(id, base_cost) + 1; after the assignment phase of a tick the one
\* worker is not Idle while a task is not completed
OneWorkerTimeAsClaimed ==
    /\ pc = "done" => LastRet = OccupancySum(TaskIds, call.base_cost)
    /\ (pc = "check" /\ completed # TaskIds) => workers[0] # Idle

\* C26: for every DAG and every base_cost, execution_time(1, base_cost)
\* returns the sum over all tasks of cost(id, base_cost) + 1: with one
\* worker the worker is never idle while an uncompleted task remains.
\* (Written over the steps of the run: the state a step starts from is as
\* claimed, or the input has a cycle.)
C26_OneWorkerTimeIsOccupancySum ==
    [][OneWorkerRun => (OneWorkerTimeAsClaimed \/ HasCycle)]_vars

\* execution_time(1, base_cost) has returned, with a base_cost of 1 or more,
\* on a DAG of three tasks or more in which a task has two dependencies
C26_Witness ==
    /\ OneWorkerRun
    /\ pc = "done"
    /\ IsDAG
    /\ call.base_cost >= 1
    /\ Cardinality(TaskIds) >= 3
    /\ \E v \in TaskIds : Cardinality(DepsOf(v)) >= 2
    /\ LastRet = OccupancySum(TaskIds, call.base_cost)

\* --------------------------------------------------------------------- C27
\* the identifiers of a log, in the order of the log
NodesOf(log) == [i \in 1 .. Len(log) |-> log[i].node]

\* s is an initial part of u
IsPrefix(s, u) ==
    /\ Len(s) <= Len(u)
    /\ \A i \in 1 .. Len(s) : s[i] = u[i]

\* the sequence execution_order returns on a Graph freshly built from the
\* input
FreshOrder == execution_order(Graph_new(input))

\* what C27 says of a state of a run of execution_time(1, base_cost): the
\* tasks assigned so far and the tasks completed so far are initial parts
\* of the sequence execution_order returns on a fresh Graph of the same
\* edges, the completions trailing the assignments by one task at most;
\* once the run has returned both are that sequence
OneWorkerOrderAsClaimed ==
    /\ IsPrefix(NodesOf(finished), NodesOf(assigned))
    /\ Len(assigned) <= Len(finished) + 1
    /\ IsPrefix(NodesOf(assigned), FreshOrder)
    /\ pc = "done" =>
           /\ NodesOf(assigned) = FreshOrder
           /\ NodesOf(finished) = FreshOrder

\* C27: for every DAG and every base_cost, the order in which
\* execution_time(1, base_cost) assigns (and completes) tasks is exactly
\* the sequence execution_order returns on a fresh Graph of the same edges.
\* (Written over the steps of the run: the state a step starts from is as
\* claimed, or the input has a cycle.)
C27_OneWorkerRefinesSequential ==
    [][OneWorkerRun => (OneWorkerOrderAsClaimed \/ HasCycle)]_vars

\* execution_time(1, base_cost) has returned on a DAG of three tasks or more
\* whose tasks were not assigned in ascending order of identifier
C27_Witness ==
    /\ OneWorkerRun
    /\ pc = "done"
    /\ IsDAG
    /\ Len(assigned) >= 3
    /\ NodesOf(finished) = FreshOrder
    /\ \E i \in 1 .. Len(assigned) - 1 :
           assigned[i].node > assigned[i + 1].node

\* --------------------------------------------------------------------- C28
\* the largest element of a set of naturals, 0 for the empty set
MaxOrZero(S) == IF S = {} THEN 0 ELSE MaxOf(S)

\* the weight of the heaviest dependency path that ends in v, the weight of
\* a path being the sum of cost(id, base_cost) + 1 over its tasks; on a DAG
RECURSIVE PathWeight(_, _)
PathWeight(v, base_cost) ==
    (v - Ord_A) + base_cost + 1
        + MaxOrZero({PathWeight(d, base_cost) : d \in DepsOf(v)})

\* the weight of the heaviest dependency path
HeaviestPath(base_cost) ==
    MaxOrZero({PathWeight(v, base_cost) : v \in TaskIds})

\* the ticks in which complete_node was called for the dependencies of v
DepsCompletedAt(v) ==
    {finished[k].time : k \in {j \in 1 .. Len(finished) :
                                   finished[j].node \in DepsOf(v)}}

\* a run of execution_time on a fresh Graph with at least as many workers as
\* tasks
AmpleRun ==
    /\ call.op = "execution_time"
    /\ call.fresh
    /\ call.num_workers >= Cardinality(TaskIds)

\* what C28 says of a state of a run with a worker for each task, on a
\* DAG: the roots assigned so far started at tick 0 and every other task
\* assigned so far started at the tick after its last dependency completed,
\* which puts the end of its occupancy at the weight of the heaviest path
\* that ends in it; once the run has returned, the value returned is the
\* weight of the heaviest dependency path
AmpleTimeAsClaimed ==
    /\ \A i \in 1 .. Len(assigned) :
           LET v == assigned[i].node
           IN  /\ DepsOf(v) = {} => assigned[i].time = 0
               /\ DepsOf(v) # {} =>
                      assigned[i].time = MaxOf(DepsCompletedAt(v)) + 1
               /\ assigned[i].time + CostOf(v) + 1
                      = PathWeight(v, call.base_cost)
    /\ pc = "done" => LastRet = HeaviestPath(call.base_cost)

\* C28: for every DAG, when num_workers is at least the number of tasks,
\* execution_time returns the weight of the heaviest dependency path, a
\* path's weight being the sum of cost(id, base_cost) + 1 over its tasks:
\* roots start at tick 0 and every other task starts at the tick after its
\* last dependency completes. (Written over the steps of the run: the state
\* a step starts from is as claimed.)
C28_AmpleWorkersTimeIsHeaviestPath ==
    [][(AmpleRun /\ IsDAG) => AmpleTimeAsClaimed]_vars

\* execution_time has returned on a DAG of three tasks or more with a worker
\* for each, two tasks having run side by side, in fewer ticks than the sum
\* of the tasks' occupancies
C28_Witness ==
    /\ AmpleRun
    /\ IsDAG
    /\ pc = "done"
    /\ Cardinality(TaskIds) >= 3
    /\ LastRet = HeaviestPath(call.base_cost)
    /\ LastRet < OccupancySum(TaskIds, call.base_cost)
    /\ \E i, j \in 1 .. Len(assigned) :
           /\ i # j
           /\ assigned[i].time <= assigned[j].time
           /\ assigned[j].time <= assigned[i].time + CostOf(assigned[i].node)

\* --------------------------------------------------------------------- C29
\* C29: for every DAG, every base_cost and every num_workers >= 1, the value
\* execution_time returns is at most the one-worker value, the sum of
\* cost(id, base_cost) + 1 over all tasks, and at least the value obtained
\* with as many workers as tasks, the weight of the heaviest path; in
\* particular it never exceeds (number of tasks) * (base_cost + 26).
C29_TimeBetweenHeaviestPathAndSum ==
    (TimeDone /\ IsDAG) =>
        LET b == call.base_cost
            n == Cardinality(TaskIds)
        IN  /\ LastRet <= FreshTime(1, b)
            /\ FreshTime(1, b) = OccupancySum(TaskIds, b)
            /\ LastRet >= FreshTime(n, b)
            /\ FreshTime(n, b) = HeaviestPath(b)
            /\ LastRet <= n * (b + 26)

\* execution_time has returned from a run with fewer workers than tasks a
\* value strictly between the weight of the heaviest path and the
\* one-worker sum
C29_Witness ==
    /\ TimeDone
    /\ IsDAG
    /\ call.num_workers >= 2
    /\ call.num_workers < Cardinality(TaskIds)
    /\ LastRet > HeaviestPath(call.base_cost)
    /\ LastRet < OccupancySum(TaskIds, call.base_cost)

\* --------------------------------------------------------------------- C30
\* the tasks with no ancestor on a cycle that are not on a cycle themselves
Unblocked == {v \in TaskIds : ~Blocked(v)}

\* the tasks the current run has scheduled: popped from the frontier
Scheduled == {v \in TaskIds : Popped(v) >= 1}

\* a call is in progress
Running == pc \in {"order", "assign", "check", "complete", "tick"}

\* a call of execution_order or execution_time (num_workers >= 0) on a fresh
\* Graph has returned
AnyCallDone == pc = "done" /\ call.fresh /\ call.op # "none"

\* a task on a cycle or with an ancestor on a cycle is not in the frontier,
\* not held by a worker and not completed
BlockedNeverPushed ==
    \A v \in TaskIds :
        (v \in BagToSet(exec_queue) \/ v \in Held \/ v \in completed)
            => ~Blocked(v)

\* C30 as stated: execution_order and execution_time (num_workers >= 0)
\* terminate on every input graph, cyclic ones included; a task on a cycle
\* or with an ancestor on a cycle is never pushed to the frontier, and the
\* run returns after scheduling exactly the tasks with no ancestor on a
\* cycle, leaving the others uncompleted.
C30_TerminatesHavingScheduledUnblocked ==
    /\ []BlockedNeverPushed
    /\ [](AnyCallDone =>
            /\ Scheduled = Unblocked
            /\ completed = Unblocked)
    /\ Running ~> (pc = "done")

\* C30, amended: execution_order and execution_time (num_workers >= 0)
\* terminate on every input graph, cyclic ones included; a task on a cycle
\* or with an ancestor on a cycle is never pushed to the frontier;
\* execution_order, and execution_time with num_workers >= 1, return after
\* scheduling exactly the tasks with no ancestor on a cycle, each once,
\* leaving the others uncompleted; execution_time with num_workers = 0
\* returns 0 having scheduled and completed nothing.
C30_TerminatesHavingScheduledUnblockedGivenWorker ==
    /\ []BlockedNeverPushed
    /\ []((AnyCallDone /\ RunsScheduler) =>
            /\ Scheduled = Unblocked
            /\ \A v \in Unblocked : Popped(v) = 1
            /\ completed = Unblocked
            /\ BagToSet(exec_queue) = {})
    /\ []((AnyCallDone /\ ~RunsScheduler) =>
            /\ LastRet = 0
            /\ Scheduled = {}
            /\ completed = {})
    /\ Running ~> (pc = "done")

\* execution_time has returned on a cyclic input, past tick 0, having
\* completed a dependency of a task that lies on a cycle; that task and a
\* task below it were never scheduled
C30_Witness ==
    /\ AnyCallDone
    /\ call.op = "execution_time"
    /\ call.num_workers >= 1
    /\ HasCycle
    /\ LastRet >= 1
    /\ Scheduled = Unblocked
    /\ \E v \in TaskIds : OnCycle(v) /\ DepsOf(v) \cap completed # {}
    /\ \E v \in TaskIds : Blocked(v) /\ ~OnCycle(v) /\ v \notin Scheduled

\* --------------------------------------------------------------------- C31
\* Graph::new alone has returned a Graph for the lines probe.s
Built == probe.op = "new" /\ probe.done /\ probe.out.returned

\* the Graph that Graph::new returned
BuiltGraph ==
    [nodes |-> probe.out.nodes, completed |-> probe.out.completed,
     exec_queue |-> probe.out.exec_queue]

\* the set of edges on the lines probe.s
BuiltEdges == {probe.s[i] : i \in 1 .. Len(probe.s)}

\* the Graph that Graph::new returns for the same set of edges, each edge on
\* one line and the lines sorted
SortedGraph == Graph_new(SortedLines(BuiltEdges))

\* C31: Graph::new depends only on the set of edges: with an edge line
\* repeated or the lines permuted it returns a Graph with the same nodes,
\* unlocks and dependencies (and the same frontier) as for the edges given
\* once each in sorted order, and therefore execution_order and
\* execution_time return the same results on it.
C31_GraphNewDependsOnEdgeSet ==
    Built =>
        /\ DOMAIN BuiltGraph.nodes = DOMAIN SortedGraph.nodes
        /\ \A v \in DOMAIN BuiltGraph.nodes :
               /\ BuiltGraph.nodes[v].unlocks = SortedGraph.nodes[v].unlocks
               /\ BuiltGraph.nodes[v].dependencies
                      = SortedGraph.nodes[v].dependencies
        /\ BuiltGraph = SortedGraph
        /\ execution_order(BuiltGraph) = execution_order(SortedGraph)
        /\ \A n \in 0 .. MaxWorkers, b \in 0 .. MaxBaseCost :
               execution_time(BuiltGraph, n, b)
                   = execution_time(SortedGraph, n, b)

\* Graph::new has returned a Graph for lines that repeat an edge and are not
\* in sorted order, on which the Graph has three nodes or more
C31_Witness ==
    /\ Built
    /\ \E i, j \in 1 .. Len(probe.s) : i < j /\ probe.s[i] = probe.s[j]
    /\ \E i, j \in 1 .. Len(probe.s) :
           i < j /\ PairLess(probe.s[j], probe.s[i])
    /\ Cardinality(DOMAIN BuiltGraph.nodes) >= 3
    /\ Len(execution_order(BuiltGraph)) >= 3

\* --------------------------------------------------------------------- C32
\* the identifiers the schedulers may look up in the node map: those in an
\* unlocks or a dependencies set, in the frontier, in a worker slot, and
\* those popped or completed in the current run
LookedUp ==
    UNION {nodes[v].unlocks \cup nodes[v].dependencies : v \in DOMAIN nodes}
        \cup BagToSet(exec_queue)
        \cup Held
        \cup SeqSet(result)
        \cup {assigned[i].node : i \in 1 .. Len(assigned)}
        \cup {finished[i].node : i \in 1 .. Len(finished)}

\* C32: for every Graph produced by Graph::new, in every state of the
\* schedulers every identifier in an unlocks set, a dependencies set, the
\* frontier or a worker slot is a key of the node map, so that no
\* nodes.get(..).unwrap() of complete_node or execution_time meets an
\* unknown identifier.
C32_LookupsNeverFail ==
    LookedUp \subseteq DOMAIN nodes

\* a worker holds a task that unlocks a task, a task waits in the frontier
\* and a task has been completed: the lookups of execution_time and of
\* complete_node have been made
C32_Witness ==
    /\ call.op = "execution_time"
    /\ pc = "check"
    /\ completed # {}
    /\ exec_queue # EmptyBag
    /\ \E v \in Held : nodes[v].unlocks # {}
    /\ LookedUp \subseteq DOMAIN nodes

\* --------------------------------------------------------------------- C33
\* what C33 says of a step that begins or continues a call of
\* execution_time with num_workers = 0: the frontier, the completed set and
\* the nodes are left as they were, nothing is assigned or completed, the
\* clock stays at 0, the call goes from its assignment phase to its first
\* termination check and from there to its return, and it returns 0
NoWorkerStepAsClaimed ==
    /\ exec_queue' = exec_queue
    /\ completed' = completed
    /\ nodes' = nodes
    /\ workers' = new_workers(0)
    /\ assigned' = <<>>
    /\ finished' = <<>>
    /\ time' = 0
    /\ \/ CanCall /\ pc' = "assign"
       \/ pc = "assign" /\ pc' = "check"
       \/ pc = "check" /\ pc' = "done" /\ ret'.time = 0

\* C33: execution_time called with num_workers = 0 reports no error: for
\* any graph it returns 0 at the first termination check without popping
\* the frontier or completing any task, even when tasks exist.
C33_NoWorkersReturnsZero ==
    [][(call'.op = "execution_time" /\ call'.num_workers = 0)
          => NoWorkerStepAsClaimed]_vars

\* execution_time(0, base_cost) has returned 0 on a fresh Graph of three
\* tasks or more, its roots still in the frontier and no task completed
C33_Witness ==
    /\ pc = "done"
    /\ call.op = "execution_time"
    /\ call.num_workers = 0
    /\ call.fresh
    /\ LastRet = 0
    /\ Cardinality(TaskIds) >= 3
    /\ exec_queue # EmptyBag
    /\ completed = {}
    /\ assigned = <<>>

\* --------------------------------------------------------------------- C34
\* Graph::new alone has been called on the lines probe.s
BuildDone == probe.op = "new" /\ probe.done

\* the lines of probe.s from which a source and a destination cannot be
\* extracted: a character that is not an upper-case letter stands where
\* one of them is expected
Malformed ==
    {i \in 1 .. Len(probe.s) :
        \E k \in 1 .. 2 : probe.s[i][k] < Ord_A \/ probe.s[i][k] > Ord_Z}

\* C34: Graph::new fails fatally on the first input line from which a
\* source and a destination cannot be extracted, and in that case no Graph,
\* not even a partial one built from the earlier lines, is returned to the
\* caller; without such a line it returns a Graph.
C34_GraphNewFailsOnMalformedLine ==
    BuildDone =>
        IF Malformed # {}
        THEN /\ probe.out.panic
             /\ probe.out.line = MinOf(Malformed)
             /\ ~probe.out.returned
             /\ probe.out.nodes = <<>>
             /\ probe.out.exec_queue = EmptyBag
        ELSE /\ ~probe.out.panic
             /\ probe.out.returned

\* Graph::new has failed on the third line, a malformed one, after two
\* lines with an edge each, and returned nothing
C34_Witness ==
    /\ BuildDone
    /\ probe.out.panic
    /\ probe.out.line = 3
    /\ Malformed = {3}
    /\ probe.s[1] # probe.s[2]
    /\ ~probe.out.returned

====
